---- MODULE Spec2Model ----
(***************************************************************************)
(* A model of the DRPO prompt-orchestration layer: AutoModel               *)
(* (src/auto_model.py) in front of OpenAIChatModel (src/openai_model.py)   *)
(* and the self-hosted VLLMModel.                                          *)
(*                                                                         *)
(* Python strings are TLA+ strings and + is \o.  A Python dict is the      *)
(* sequence of its <<key, value>> items in insertion order.  A call that   *)
(* raises is an outcome other than "ok".  Every operation leaves in `last` *)
(* what it was called with, what it returned or raised, and the calls it   *)
(* made on its collaborators (retriever, backend, API client).             *)
(***************************************************************************)
EXTENDS Integers, Sequences, FiniteSets

VARIABLES
    constructed,            \* an AutoModel instance exists
    model_mapping,          \* self.model_mapping   (dict: model name -> artifact path)
    icl_examples,           \* self.icl_examples    (dict: query -> answer)
    embedding_model,        \* self.embedding_model (encode: text -> vector)
    icl_query_embeddings,   \* self.icl_query_embeddings (dict: query -> vector)
    open_ai_model,          \* self.open_ai_model
    model,                  \* self.model, the backend adapter
    optimized_prompt,       \* self.optimized_prompt
    last                    \* the last operation: inputs, outcome, calls made

vars == <<constructed, model_mapping, icl_examples, embedding_model,
          icl_query_embeddings, open_ai_model, model, optimized_prompt, last>>

-----------------------------------------------------------------------------
(* Bounds of the model.                                                    *)

MaxExamples == 2        \* ICL_examples.json holds 0..MaxExamples entries
MaxK == 3               \* k and num_optimized_icl range over -1..MaxK
MaxChoices == 3         \* an API response holds 1..MaxChoices choices

-----------------------------------------------------------------------------
(* Values.                                                                 *)

None == "None"
DefaultPrompt == "You are a helpful assistant"

\* Texts that are user queries and example queries.
Texts == {"qa", "qb", "qc"}

\* The entries ICL_examples.json is made of (one answer per query).
ExamplePool == {<<"qa", "ans-a">>, <<"qb", "ans-b">>, <<"qc", "ans-c">>}

\* Embedding vectors: <<1,1>> and <<2,2>> are distinct and parallel.
Vectors == {<<1, 0>>, <<1, 1>>, <<2, 2>>, <<-1, 1>>}

\* Sampling parameters in hundredths: temperature 0.7 is 70, top_p 0.95 is 95.
SamplingParams ==
    { [temperature |-> 70,  top_p |-> 95],
      [temperature |-> -10, top_p |-> 95],
      [temperature |-> 70,  top_p |-> 0],
      [temperature |-> 70,  top_p |-> 150] }

\* Backend model identifiers, and the registry file ./data/model_mapping.json.
ModelNames == {"registered-model", "new-model"}
RegistryFile == << <<"registered-model", "prompts/registered.pkl">> >>

\* The pickled artifact behind each registry path: either the nested shape
\* (terminal_node.state[-1].system_prompt) or the bare prompt string.
Artifacts ==
    { [nested |-> TRUE,  system_prompt |-> "tuned prompt", raw |-> ""],
      [nested |-> FALSE, system_prompt |-> "",             raw |-> "raw prompt"] }
NoArtifact == [nested |-> FALSE, system_prompt |-> "", raw |-> ""]

\* os.getenv("OPENAI_API_KEY", None), and the tokenizer's chat_template.
ApiKeys == {None, "sk-key"}
ChatTemplates == {None, "chat-template"}

\* Contents of the choices of a chat-completion response.
Contents == {"r1", "r2"}

-----------------------------------------------------------------------------
(* Python helpers.                                                         *)

Min(a, b) == IF a <= b THEN a ELSE b
Max(a, b) == IF a >= b THEN a ELSE b

\* s[:k]
SliceTo(s, k) ==
    IF k >= 0 THEN SubSeq(s, 1, Min(k, Len(s)))
              ELSE SubSeq(s, 1, Max(Len(s) + k, 0))

\* The keys of a dict, in insertion order.
KeySet(d) == {d[i][1] : i \in 1..Len(d)}

\* key in d
In(key, d) == key \in KeySet(d)

\* d[key], for a key of d
Lookup(d, key) == d[CHOOSE i \in 1..Len(d) : d[i][1] = key][2]

\* Dicts over `pool` with at most n items: sequences of items with distinct keys.
Dicts(pool, n) ==
    UNION { { d \in [1..m -> pool] :
                \A i, j \in 1..m : d[i][1] = d[j][1] => i = j } : m \in 0..n }

-----------------------------------------------------------------------------
(* Example Retriever: AutoModel._get_top_k_icl_examples.                   *)

Dot(a, b) == a[1] * b[1] + a[2] * b[2]
Sgn(x) == IF x > 0 THEN 1 ELSE IF x < 0 THEN -1 ELSE 0

\* util.cos_sim(a, b) = a.b / (|a| |b|).  The value is kept exactly, as the
\* fraction num/den = sgn(a.b) (a.b)^2 / (|a|^2 |b|^2), the signed square of
\* the cosine: the signed square is strictly increasing on [-1, 1], so the
\* order and the ties of the cosines are the order and the ties of these.
cos_sim(a, b) ==
    [num |-> Sgn(Dot(a, b)) * Dot(a, b) * Dot(a, b),
     den |-> Dot(a, a) * Dot(b, b)]

\* x < y, x == y on similarities (the denominators are positive).
SimLess(x, y) == x.num * y.den < y.num * x.den
SimEq(x, y) == x.num * y.den = y.num * x.den

\* self.embedding_model.encode(text)
encode(text) == embedding_model[text]

\* _compute_icl_query_embeddings: one vector per key, in the keys' order.
compute_icl_query_embeddings(examples, enc) ==
    [i \in 1..Len(examples) |-> <<examples[i][1], enc[examples[i][1]]>>]

\* One step of list.sort(reverse=True, key=lambda x: x[0]): the sort is
\* stable, so x, which came later than everything in `sorted`, goes after
\* every entry whose key is not less than its own.
InsertDesc(sorted, x) ==
    LET p == Cardinality({i \in 1..Len(sorted) : ~SimLess(sorted[i][1], x[1])})
    IN  SubSeq(sorted, 1, p) \o <<x>> \o SubSeq(sorted, p + 1, Len(sorted))

\* The same step of a sort that puts x before the entries it ties with
\* (sort ascending, then reverse the list).
InsertDescTiesReversed(sorted, x) ==
    LET p == Cardinality({i \in 1..Len(sorted) : SimLess(x[1], sorted[i][1])})
    IN  SubSeq(sorted, 1, p) \o <<x>> \o SubSeq(sorted, p + 1, Len(sorted))

RECURSIVE SortTiesReversed(_)
SortTiesReversed(s) ==
    IF s = <<>> THEN <<>>
    ELSE InsertDescTiesReversed(SortTiesReversed(SubSeq(s, 1, Len(s) - 1)), s[Len(s)])

RECURSIVE SortDesc(_)
SortDesc(s) ==
    IF s = <<>> THEN <<>>
    ELSE InsertDesc(SortDesc(SubSeq(s, 1, Len(s) - 1)), s[Len(s)])

\* icl_sims before the sort: (similarity, icl_query) per key of the index.
icl_sims(query) ==
    [i \in 1..Len(icl_query_embeddings) |->
        <<cos_sim(icl_query_embeddings[i][2], encode(query)),
          icl_query_embeddings[i][1]>>]

\* _get_top_k_icl_examples without the sort.
get_top_k_unsorted(query, k) == SliceTo(icl_sims(query), k)

get_top_k_icl_examples(query, k) == SliceTo(SortDesc(icl_sims(query)), k)

-----------------------------------------------------------------------------
(* Results of calls.                                                       *)

\* A returned value: a single string, or a list of strings.
Str(x) == [kind |-> "str", items |-> <<x>>]
List(xs) == [kind |-> "list", items |-> xs]
NoValue == [kind |-> "none", items |-> <<>>]

\* What a call did: its outcome ("ok", or the exception raised), the value
\* returned, the retriever calls and the backend calls it made, in order.
Result(outcome, value, retrieved, backend_calls) ==
    [outcome |-> outcome, value |-> value,
     retrieved |-> retrieved, backend_calls |-> backend_calls]

Raise(exception) == Result(exception, NoValue, <<>>, <<>>)

\* A messages argument: None, or a list of role/content dicts.
NoMessages == [is_none |-> TRUE, items |-> <<>>]
Messages(items) == [is_none |-> FALSE, items |-> items]
Message(role, content) == [role |-> role, content |-> content]

\* A prompt handed to the self-hosted engine: plain text, or the backend's
\* chat template applied to a conversation.
PlainPrompt(text) == [templated |-> FALSE, text |-> text, messages |-> <<>>]

-----------------------------------------------------------------------------
(* Hosted-API backend: OpenAIChatModel.                                    *)

NoTokenizer == [chat_template |-> None]
NoModel == [kind |-> "none", model_name |-> None, client |-> FALSE,
            tokenizer |-> NoTokenizer]

\* OpenAIChatModel.__init__ that creates the client before it looks at the
\* credential.
OpenAIChatModel_init_client_first(model_name, api_key) ==
    IF api_key = None
    THEN [outcome |-> "ValueError", obj |-> NoModel,
          trace |-> <<"self.model_name", "openai.OpenAI", "os.getenv">>]
    ELSE [outcome |-> "ok",
          obj |-> [kind |-> "openai", model_name |-> model_name,
                   client |-> TRUE, tokenizer |-> NoTokenizer],
          trace |-> <<"self.model_name", "openai.OpenAI", "os.getenv",
                      "openai.api_key">>]

\* OpenAIChatModel.__init__: the object built (when it returns) and the
\* steps taken, in order.  api_key is os.getenv("OPENAI_API_KEY", None).
OpenAIChatModel_init(model_name, api_key) ==
    IF api_key = None
    THEN [outcome |-> "ValueError", obj |-> NoModel,
          trace |-> <<"self.model_name", "os.getenv">>]
    ELSE [outcome |-> "ok",
          obj |-> [kind |-> "openai", model_name |-> model_name,
                   client |-> TRUE, tokenizer |-> NoTokenizer],
          trace |-> <<"self.model_name", "os.getenv", "openai.api_key",
                      "openai.OpenAI">>]

\* The messages OpenAIChatModel.generate sends.
build_messages(user_prompt, system_prompt, messages) ==
    IF ~messages.is_none THEN messages.items
    ELSE IF system_prompt # None
         THEN <<Message("system", system_prompt), Message("user", user_prompt)>>
         ELSE <<Message("user", user_prompt)>>

\* self.client.chat.completions.create(...), as the call recorded.
create_call(messages, sp, max_new_tokens, stop, num_return_sequences) ==
    [target |-> "chat.completions.create", model |-> model.model_name,
     messages |-> messages, prompt |-> PlainPrompt(""),
     temperature |-> sp.temperature, top_p |-> sp.top_p,
     max_tokens |-> max_new_tokens, n |-> num_return_sequences,
     stop |-> stop, seed |-> 0]

\* The return statement that answers with the first choice whatever
\* num_return_sequences is.
first_choice_only(num_return_sequences, choices) == Str(choices[1])

\* Lines 73-76: what generate returns from the response's choices.
return_value(num_return_sequences, choices) ==
    IF num_return_sequences = 1 THEN Str(choices[1]) ELSE List(choices)

\* OpenAIChatModel.generate.  `response` is what the API answers: an error,
\* or its choices' contents in order.
OpenAIChatModel_generate(user_prompt, system_prompt, messages, sp, max_new_tokens, stop, num_return_sequences, response) ==
    IF ~(user_prompt # None \/ ~messages.is_none) THEN Raise("AssertionError")
    ELSE LET call == create_call(build_messages(user_prompt, system_prompt, messages),
                                 sp, max_new_tokens, stop, num_return_sequences)
         IN  IF response.error
             THEN Result("APIError", NoValue, <<>>, <<call>>)
             ELSE Result("ok", return_value(num_return_sequences, response.choices),
                         <<>>, <<call>>)

-----------------------------------------------------------------------------
(* Self-hosted backend: VLLMModel, as AutoModel uses it.                   *)

\* VLLMModel(model_name, ...): an adapter holding the model's tokenizer,
\* whose chat_template attribute is None or the model's template.
VLLMModel_init(model_name, chat_template) ==
    [outcome |-> "ok",
     obj |-> [kind |-> "vllm", model_name |-> model_name, client |-> FALSE,
              tokenizer |-> [chat_template |-> chat_template]],
     trace |-> <<"self.model_name", "vllm.LLM">>]

\* self.model.generate(prompt, temperature, top_p, max_new_tokens, stop)
VLLMModel_generate(prompt, sp, max_new_tokens, stop, response) ==
    LET call == [target |-> "vllm.generate", model |-> model.model_name,
                 messages |-> <<>>, prompt |-> prompt,
                 temperature |-> sp.temperature, top_p |-> sp.top_p,
                 max_tokens |-> max_new_tokens, n |-> 1,
                 stop |-> stop, seed |-> 0]
    IN  IF response.error
        THEN Result("APIError", NoValue, <<>>, <<call>>)
        ELSE Result("ok", Str(response.choices[1]), <<>>, <<call>>)

\* hasattr(obj, name): the attributes of an object are the fields of its record.
HasAttr(obj, name) == name \in DOMAIN obj

-----------------------------------------------------------------------------
(* Orchestrator: AutoModel.                                                *)

DefaultMaxNewTokens == 512

\* Calling a dict, d(key): a dict is not callable.
DictCall(d, key) == [outcome |-> "TypeError", value |-> None]

\* Lines 86-89: the nested system_prompt when the artifact has the nested
\* shape, else (the attribute access raised) the artifact itself.
extract_prompt(artifact) ==
    IF artifact.nested THEN artifact.system_prompt ELSE artifact.raw

\* _load_optimized_prompt.  `artifact` is what pickle.load gives for the
\* registered path.
load_optimized_prompt(model_name, mapping, artifact) ==
    IF ~In(model_name, mapping)
    THEN [outcome |-> "ok", value |-> DefaultPrompt]
    ELSE LET prompt_path == DictCall(mapping, model_name)
         IN  IF prompt_path.outcome # "ok"
             THEN [outcome |-> prompt_path.outcome, value |-> None]
             ELSE [outcome |-> "ok", value |-> extract_prompt(artifact)]

\* The block line 105 appends for one retrieved example, with the user
\* turn's "# Query:" / "# Answer:" headers in place of its own.
icl_block_user_headers(icl_query, answer) ==
    "\n\n# Query:\n" \o icl_query \o "\n\n# Answer:\n" \o answer

\* The block line 105 appends for one retrieved example.
icl_block(icl_query, answer) ==
    "\n\n#Query:\n" \o icl_query \o "\n\n#Answer:\n" \o answer

\* Lines 104-105: prompt += block, for each retrieved entry in order.
RECURSIVE append_blocks(_, _)
append_blocks(prompt, top_icl_queries) ==
    IF top_icl_queries = <<>> THEN prompt
    ELSE append_blocks(
            prompt \o icl_block(top_icl_queries[1][2],
                                Lookup(icl_examples, top_icl_queries[1][2])),
            Tail(top_icl_queries))

\* Lines 97-100: the base prompt.
base_prompt(use_optimized_prompt) ==
    IF use_optimized_prompt THEN optimized_prompt ELSE DefaultPrompt

\* _prepare_system_prompt that retrieves and appends whatever optimized_icl is.
prepare_system_prompt_always_icl(use_optimized_prompt, optimized_icl, num_optimized_icl, user_query) ==
    LET top_icl_queries == get_top_k_icl_examples(user_query, num_optimized_icl)
    IN  [prompt |-> append_blocks(base_prompt(use_optimized_prompt), top_icl_queries),
         retrieved |-> <<[query |-> user_query, k |-> num_optimized_icl,
                          result |-> top_icl_queries]>>]

\* _prepare_system_prompt: the prompt, and the retriever calls made.
prepare_system_prompt(use_optimized_prompt, optimized_icl, num_optimized_icl, user_query) ==
    IF optimized_icl
    THEN LET top_icl_queries == get_top_k_icl_examples(user_query, num_optimized_icl)
         IN  [prompt |-> append_blocks(base_prompt(use_optimized_prompt), top_icl_queries),
              retrieved |-> <<[query |-> user_query, k |-> num_optimized_icl,
                               result |-> top_icl_queries]>>]
    ELSE [prompt |-> base_prompt(use_optimized_prompt), retrieved |-> <<>>]

\* _prepare_chat_llm_prompt: tokenizer.apply_chat_template on the
\* two-message conversation.
prepare_chat_llm_prompt(system_prompt, user_prompt) ==
    [templated |-> TRUE, text |-> "",
     messages |-> <<Message("system", system_prompt), Message("user", user_prompt)>>]

\* Line 161.
user_turn(user_query) == "# Query:\n" \o user_query \o "\n\n# Answer:\n<START>"

\* The assertion of lines 154-155 with >= in place of >.
icl_count_ok_nonnegative(optimized_icl, num_optimized_icl) ==
    ~optimized_icl \/ num_optimized_icl >= 0

\* Lines 154-155: the assertion passes.
icl_count_ok(optimized_icl, num_optimized_icl) ==
    ~optimized_icl \/ num_optimized_icl > 0

\* AutoModel.generate.  `response` is what the backend answers if called.
generate(user_query, use_optimized_prompt, optimized_icl, num_optimized_icl, sp, response) ==
    IF ~icl_count_ok(optimized_icl, num_optimized_icl) THEN Raise("AssertionError")
    ELSE
    LET sys == prepare_system_prompt(use_optimized_prompt, optimized_icl,
                                     num_optimized_icl, user_query)
        user_prompt == user_turn(user_query)
    IN  IF open_ai_model
        THEN [OpenAIChatModel_generate(user_prompt, sys.prompt, NoMessages, sp,
                                       DefaultMaxNewTokens, None, 1, response)
                EXCEPT !.retrieved = sys.retrieved]
        ELSE IF ~HasAttr(model.tokenizer, "chat_tempalte")
        THEN [Raise("AttributeError") EXCEPT !.retrieved = sys.retrieved]
        ELSE LET prompt == IF model.tokenizer["chat_tempalte"] # None
                           THEN prepare_chat_llm_prompt(sys.prompt, user_prompt)
                           ELSE PlainPrompt(sys.prompt \o "\n\n" \o user_prompt)
             IN  [VLLMModel_generate(prompt, sp, DefaultMaxNewTokens, None, response)
                    EXCEPT !.retrieved = sys.retrieved]

\* AutoModel.__init__, lines 36-43: the backend, then the optimized prompt.
AutoModel_init(model_name, open_ai, api_key, chat_template, mapping, artifact) ==
    LET backend == IF open_ai THEN OpenAIChatModel_init(model_name, api_key)
                              ELSE VLLMModel_init(model_name, chat_template)
        loaded == load_optimized_prompt(model_name, mapping, artifact)
    IN  IF backend.outcome # "ok"
        THEN [outcome |-> backend.outcome, obj |-> NoModel, prompt |-> None,
              trace |-> backend.trace]
        ELSE IF loaded.outcome # "ok"
        THEN [outcome |-> loaded.outcome, obj |-> NoModel, prompt |-> None,
              trace |-> backend.trace \o <<"_load_optimized_prompt">>]
        ELSE [outcome |-> "ok", obj |-> backend.obj, prompt |-> loaded.value,
              trace |-> backend.trace \o <<"_load_optimized_prompt">>]

-----------------------------------------------------------------------------
(* The state machine.                                                      *)

NoArgs == [none |-> TRUE]

Last(op, args, r) ==
    [op |-> op, args |-> args, outcome |-> r.outcome, value |-> r.value,
     retrieved |-> r.retrieved, backend_calls |-> r.backend_calls,
     topk |-> <<>>, prompt |-> "", trace |-> <<>>]

\* What the API answers to a request for n choices: an error, or n choices.
Responses(n) ==
    {[error |-> TRUE, choices |-> <<>>]}
        \cup {[error |-> FALSE, choices |-> c] : c \in [1..n -> Contents]}

Init ==
    /\ constructed = FALSE
    /\ model_mapping = <<>>
    /\ icl_examples = <<>>
    /\ embedding_model = [t \in Texts |-> <<1, 0>>]
    /\ icl_query_embeddings = <<>>
    /\ open_ai_model = FALSE
    /\ model = NoModel
    /\ optimized_prompt = None
    /\ last = Last("none", NoArgs, Raise("none"))

\* AutoModel(model_name, open_ai_model=open_ai), in an environment with the
\* given credential, data files, embedding model and backend tokenizer.
\* An __init__ that raises leaves no instance behind.
Construct ==
    /\ ~constructed
    /\ \E model_name \in ModelNames, open_ai \in BOOLEAN, api_key \in ApiKeys,
          chat_template \in ChatTemplates, artifact \in Artifacts,
          examples \in Dicts(ExamplePool, MaxExamples), enc \in [Texts -> Vectors] :
        /\ open_ai => chat_template = None
        /\ ~open_ai => api_key = None
        /\ LET r == AutoModel_init(model_name, open_ai, api_key, chat_template,
                                   RegistryFile, artifact)
               args == [model_name |-> model_name, open_ai_model |-> open_ai,
                        api_key |-> api_key, chat_template |-> chat_template,
                        artifact |-> IF In(model_name, RegistryFile)
                                     THEN artifact ELSE NoArtifact]
           IN  /\ last' = [Last("construct", args, Raise(r.outcome))
                              EXCEPT !.trace = r.trace]
               /\ IF r.outcome = "ok"
                  THEN /\ constructed' = TRUE
                       /\ model_mapping' = RegistryFile
                       /\ icl_examples' = examples
                       /\ embedding_model' = enc
                       /\ icl_query_embeddings' =
                              compute_icl_query_embeddings(examples, enc)
                       /\ open_ai_model' = open_ai
                       /\ model' = r.obj
                       /\ optimized_prompt' = r.prompt
                  ELSE UNCHANGED <<constructed, model_mapping, icl_examples,
                                   embedding_model, icl_query_embeddings,
                                   open_ai_model, model, optimized_prompt>>

instance == <<constructed, model_mapping, icl_examples, embedding_model,
              icl_query_embeddings, open_ai_model, model, optimized_prompt>>

\* self._get_top_k_icl_examples(query, k)
TopK ==
    /\ constructed
    /\ last.op = "idle"
    /\ \E query \in Texts, k \in -1..MaxK :
        last' = [Last("topk", [query |-> query, k |-> k], Raise("ok"))
                    EXCEPT !.topk = get_top_k_icl_examples(query, k)]
    /\ UNCHANGED instance

\* self._prepare_system_prompt(optimized_prompt, optimized_icl, num_optimized_icl, user_query)
PrepareSystemPrompt ==
    /\ constructed
    /\ last.op = "idle"
    /\ \E user_query \in Texts, use_optimized_prompt \in BOOLEAN,
          optimized_icl \in BOOLEAN, num_optimized_icl \in -1..MaxK :
        LET r == prepare_system_prompt(use_optimized_prompt, optimized_icl,
                                       num_optimized_icl, user_query)
            args == [user_query |-> user_query,
                     optimized_prompt |-> use_optimized_prompt,
                     optimized_icl |-> optimized_icl,
                     num_optimized_icl |-> num_optimized_icl]
        IN  last' = [Last("prepare_system_prompt", args, Raise("ok"))
                        EXCEPT !.prompt = r.prompt, !.retrieved = r.retrieved]
    /\ UNCHANGED instance

\* self.generate(user_query, optimized_prompt, optimized_icl, num_optimized_icl,
\*               temperature, top_p)
Generate ==
    /\ constructed
    /\ last.op = "idle"
    /\ \E user_query \in Texts, use_optimized_prompt \in BOOLEAN,
          optimized_icl \in BOOLEAN, num_optimized_icl \in -1..MaxK,
          sp \in SamplingParams, response \in Responses(1) :
        LET r == generate(user_query, use_optimized_prompt, optimized_icl,
                          num_optimized_icl, sp, response)
            args == [user_query |-> user_query,
                     optimized_prompt |-> use_optimized_prompt,
                     optimized_icl |-> optimized_icl,
                     num_optimized_icl |-> num_optimized_icl,
                     temperature |-> sp.temperature, top_p |-> sp.top_p]
        IN  last' = Last("generate", args, r)
    /\ UNCHANGED instance

\* The (user_prompt, system_prompt, messages) a caller hands to the adapter.
PromptArgs ==
    { [user_prompt |-> "user text", system_prompt |-> "system text", messages |-> NoMessages],
      [user_prompt |-> "user text", system_prompt |-> None, messages |-> NoMessages],
      [user_prompt |-> None, system_prompt |-> None,
       messages |-> Messages(<<Message("user", "given")>>)],
      [user_prompt |-> None, system_prompt |-> None, messages |-> NoMessages] }

\* self.model.generate(...) on the hosted-API adapter, called directly.
OpenAIGenerate ==
    /\ constructed
    /\ last.op = "idle"
    /\ last.op = "idle"
    /\ open_ai_model
    /\ \E pa \in PromptArgs, sp \in SamplingParams, n \in 1..MaxChoices :
       \E response \in Responses(n) :
        LET r == OpenAIChatModel_generate(pa.user_prompt, pa.system_prompt,
                                          pa.messages, sp, DefaultMaxNewTokens,
                                          None, n, response)
            args == [user_prompt |-> pa.user_prompt,
                     system_prompt |-> pa.system_prompt,
                     messages |-> pa.messages,
                     temperature |-> sp.temperature, top_p |-> sp.top_p,
                     num_return_sequences |-> n, response |-> response]
        IN  last' = Last("openai_generate", args, r)
    /\ UNCHANGED instance

\* The call has returned and its request and result are dropped: the layer
\* is synchronous, and the next call starts only after the last one ended.
Discard ==
    /\ constructed
    /\ last.op # "idle"
    /\ last' = Last("idle", NoArgs, Raise("none"))
    /\ UNCHANGED instance

Next ==
    \/ Construct
    \/ Discard
    \/ TopK
    \/ PrepareSystemPrompt
    \/ Generate
    \/ OpenAIGenerate

Spec == Init /\ [][Next]_vars

-----------------------------------------------------------------------------
(* The claims.                                                             *)

NumExamples == Len(icl_examples)

\* The similarity of the i-th stored example to `query`.
SimOf(i, query) == cos_sim(icl_query_embeddings[i][2], encode(query))

BadSampling(args) ==
    args.temperature < 0 \/ args.top_p <= 0 \/ args.top_p > 100

\* C1: for k >= 1 and a nonempty ExampleSet, _get_top_k_icl_examples(query, k)
\* returns exactly min(k, |ExampleSet|) (similarity, exampleQuery) entries,
\* each exampleQuery a distinct key of the ExampleSet carrying its similarity
\* to the query, ordered by non-increasing similarity.
C1_TopKLengthAndOrder ==
    (last.op = "topk" /\ last.args.k >= 1 /\ NumExamples >= 1) =>
        LET r == last.topk
        IN  /\ Len(r) = Min(last.args.k, NumExamples)
            /\ \A i \in 1..Len(r) :
                 /\ In(r[i][2], icl_examples)
                 /\ SimEq(r[i][1],
                          cos_sim(Lookup(icl_query_embeddings, r[i][2]),
                                  embedding_model[last.args.query]))
            /\ \A i, j \in 1..Len(r) : r[i][2] = r[j][2] => i = j
            /\ \A i \in 1..(Len(r) - 1) : ~SimLess(r[i][1], r[i + 1][1])

\* C1's case: k exceeds the number of examples, and the most similar example
\* is not the first one stored, so the result is truncated and reordered.
C1_Witness ==
    /\ last.op = "topk"
    /\ NumExamples >= 2
    /\ last.args.k > NumExamples
    /\ Len(last.topk) = NumExamples
    /\ last.topk[1][2] = icl_examples[2][1]
    /\ SimLess(last.topk[2][1], last.topk[1][1])

\* C2: generate with optimized_icl=true and num_optimized_icl <= 0 fails with
\* the assertion before any retrieval, prompt assembly or backend call: no
\* retriever call and no backend call is recorded, on either backend.
C2_NonPositiveIclCountFailsFast ==
    (last.op = "generate" /\ last.args.optimized_icl
        /\ last.args.num_optimized_icl <= 0) =>
        /\ last.outcome = "AssertionError"
        /\ last.retrieved = <<>>
        /\ last.backend_calls = <<>>

\* C2's case: such a call with num_optimized_icl = 0 on the hosted-API backend.
C2_Witness ==
    /\ last.op = "generate"
    /\ open_ai_model
    /\ last.args.optimized_icl
    /\ last.args.num_optimized_icl = 0
    /\ last.outcome = "AssertionError"

\* C3 (as claimed): a generate request with temperature < 0 or top_p outside
\* (0, 1] fails, on both backends, before any backend call is made.
C3_BadSamplingFailsBeforeBackendCall ==
    (last.op \in {"generate", "openai_generate"} /\ BadSampling(last.args)) =>
        /\ last.outcome \notin {"ok", "APIError"}
        /\ last.backend_calls = <<>>

\* C4 (as claimed): construction always completes the resolution of
\* OptimizedPrompt once the backend is built: the default string for an
\* unregistered model identifier, and for a registered one the artifact's
\* nested system_prompt, else the whole artifact.
C4_PromptResolutionCompletes ==
    (last.op = "construct"
        /\ ~(last.args.open_ai_model /\ last.args.api_key = None)) =>
        /\ last.outcome = "ok"
        /\ constructed
        /\ optimized_prompt =
              IF ~In(last.args.model_name, RegistryFile)
              THEN "You are a helpful assistant"
              ELSE IF last.args.artifact.nested
                   THEN last.args.artifact.system_prompt
                   ELSE last.args.artifact.raw

\* C5: with optimized_icl=false, _prepare_system_prompt returns exactly the
\* base prompt (OptimizedPrompt when optimized_prompt is set, else the default
\* string), for every num_optimized_icl, without invoking the retriever.
C5_NoIclGivesBasePrompt ==
    (last.op = "prepare_system_prompt" /\ ~last.args.optimized_icl) =>
        /\ last.prompt = IF last.args.optimized_prompt
                         THEN optimized_prompt
                         ELSE "You are a helpful assistant"
        /\ last.retrieved = <<>>

\* C5's case: optimized_icl=false with a non-positive count and examples stored.
C5_Witness ==
    /\ last.op = "prepare_system_prompt"
    /\ ~last.args.optimized_icl
    /\ last.args.num_optimized_icl <= 0
    /\ NumExamples >= 2
    /\ last.prompt = "You are a helpful assistant"

\* The blocks of the literal template, one per retrieved entry, in order.
RECURSIVE C6_Blocks(_)
C6_Blocks(entries) ==
    IF entries = <<>> THEN ""
    ELSE "\n\n#Query:\n" \o entries[1][2] \o "\n\n#Answer:\n"
            \o Lookup(icl_examples, entries[1][2]) \o C6_Blocks(Tail(entries))

\* C6: with optimized_icl=true and num_optimized_icl = k >= 1 the system
\* prompt is the base prompt followed by exactly min(k, |ExampleSet|) blocks
\* "\n\n#Query:\n<q>\n\n#Answer:\n<a>", one per retrieved example, in the
\* order the retriever returned them.
C6_IclBlocksAppended ==
    (last.op = "prepare_system_prompt" /\ last.args.optimized_icl
        /\ last.args.num_optimized_icl >= 1) =>
        /\ Len(last.retrieved) = 1
        /\ LET r == last.retrieved[1].result
               base == IF last.args.optimized_prompt
                       THEN optimized_prompt
                       ELSE "You are a helpful assistant"
           IN  /\ r = get_top_k_icl_examples(last.args.user_query,
                                             last.args.num_optimized_icl)
               /\ Len(r) = Min(last.args.num_optimized_icl, NumExamples)
               /\ last.prompt = base \o C6_Blocks(r)

\* C6's case: k = 2 on an ExampleSet of at least 2 examples: 2 blocks.
C6_Witness ==
    /\ last.op = "prepare_system_prompt"
    /\ last.args.optimized_icl
    /\ last.args.num_optimized_icl = 2
    /\ NumExamples >= 2
    /\ Len(last.retrieved[1].result) = 2
    /\ last.prompt # "You are a helpful assistant"

\* C7 (as claimed): for a query identical to a stored example query and
\* k >= 1, that example is the first entry returned, ties included.
C7_IdenticalQueryFirst ==
    (last.op = "topk" /\ last.args.k >= 1
        /\ In(last.args.query, icl_examples)) =>
        last.topk[1][2] = last.args.query

\* C7 (amended): for a query identical to a stored example query and k >= 1,
\* the first entry returned has the identical example's similarity, which is
\* the maximum over the ExampleSet, and is the example stored first among
\* those with that similarity: the identical example, unless an example
\* stored before it ties with it.
C7_FirstIsEarliestMaximal ==
    (last.op = "topk" /\ last.args.k >= 1
        /\ In(last.args.query, icl_examples)) =>
        LET q == last.args.query
            self == CHOOSE i \in 1..NumExamples : icl_examples[i][1] = q
            ties == {i \in 1..NumExamples : SimEq(SimOf(i, q), SimOf(self, q))}
            first == CHOOSE i \in ties : \A j \in ties : i <= j
        IN  /\ \A i \in 1..NumExamples : ~SimLess(SimOf(self, q), SimOf(i, q))
            /\ SimEq(last.topk[1][1], SimOf(self, q))
            /\ last.topk[1][2] = icl_examples[first][1]
            /\ (first = self => last.topk[1][2] = q)

\* C7's case: the query is a stored example query and an example stored
\* before it has the same similarity, so the first entry is that other one.
C7_Witness ==
    /\ last.op = "topk"
    /\ last.args.k >= 1
    /\ In(last.args.query, icl_examples)
    /\ last.topk[1][2] # last.args.query
    /\ SimEq(last.topk[1][1], cos_sim(embedding_model[last.args.query],
                                      embedding_model[last.args.query]))

\* C8: constructing the hosted-API backend with the credential variable
\* absent fails with ValueError before the API client is created and before
\* any backend call; no backend instance exists afterwards.
C8_MissingCredentialFailsAtConstruction ==
    (last.op = "construct" /\ last.args.open_ai_model
        /\ last.args.api_key = None) =>
        /\ last.outcome = "ValueError"
        /\ \A i \in 1..Len(last.trace) : last.trace[i] # "openai.OpenAI"
        /\ last.backend_calls = <<>>
        /\ model = NoModel
        /\ ~constructed

\* C8's case: a hosted-API construction without the credential has raised.
C8_Witness ==
    /\ last.op = "construct"
    /\ last.args.open_ai_model
    /\ last.args.api_key = None
    /\ last.outcome = "ValueError"

\* C9: the hosted-API generate returns a single string, the first choice's
\* content, when num_return_sequences = 1, and otherwise the list of every
\* choice's content in response order.
C9_ReturnShape ==
    (last.op = "openai_generate" /\ last.outcome = "ok") =>
        IF last.args.num_return_sequences = 1
        THEN /\ last.value.kind = "str"
             /\ last.value.items = <<last.args.response.choices[1]>>
        ELSE /\ last.value.kind = "list"
             /\ last.value.items = last.args.response.choices

\* C9's case: num_return_sequences = 3 and 3 choices, not all alike, returned.
C9_Witness ==
    /\ last.op = "openai_generate"
    /\ last.outcome = "ok"
    /\ last.args.num_return_sequences = 3
    /\ Len(last.value.items) = 3
    /\ last.value.items[1] # last.value.items[3]

\* C10 (as claimed): on the self-hosted backend every valid generate call
\* reaches exactly one backend generate call, whose prompt is the chat
\* template applied to [system, user] when the tokenizer has a chat template
\* and otherwise system prompt + "\n\n" + user turn.
C10_SelfHostedCallDispatched ==
    (last.op = "generate" /\ ~open_ai_model /\ ~BadSampling(last.args)
        /\ (last.args.optimized_icl => last.args.num_optimized_icl > 0)) =>
        /\ last.outcome \in {"ok", "APIError"}
        /\ Len(last.backend_calls) = 1
        /\ LET sys == prepare_system_prompt(last.args.optimized_prompt,
                          last.args.optimized_icl, last.args.num_optimized_icl,
                          last.args.user_query).prompt
               user == "# Query:\n" \o last.args.user_query
                          \o "\n\n# Answer:\n<START>"
           IN  last.backend_calls[1].prompt =
                  IF model.tokenizer.chat_template # None
                  THEN [templated |-> TRUE, text |-> "",
                        messages |-> <<[role |-> "system", content |-> sys],
                                       [role |-> "user", content |-> user]>>]
                  ELSE [templated |-> FALSE, text |-> sys \o "\n\n" \o user,
                        messages |-> <<>>]

====
